---- MODULE Spec2Model ----
(***************************************************************************)
(* Subscription lifecycle of the AI content generator backend: the user    *)
(* document (models/User), the payment routes (create-order,               *)
(* capture-order, webhook, subscription), the PayPal gateway client and    *)
(* the auth / checkSubscription middleware in front of /generate.          *)
(*                                                                         *)
(* Time is counted in days.  A request handler is one action; the server  *)
(* answers a request before it handles the next one.                      *)
(***************************************************************************)
EXTENDS Integers, Sequences, FiniteSets, TLC

(* ------------------------------ bounds --------------------------------- *)

\* accounts that may be created
MaxUsers == 2
\* clock advances that may happen
MaxTicks == 1
\* successful generations counted per account
MaxUsage == 5
\* requests the server handles at the same time
MaxRequests == 2

(* ------------------------- program constants --------------------------- *)

\* JavaScript null / undefined in a Date or Number field
Null == -1
\* JavaScript null / undefined in a String field
None == "null"
\* null / undefined order id
NoOrder == <<>>

\* endDate.setDate(endDate.getDate() + 30)
DurationDays == 30
\* the clock is observed once a subscription period and a day has passed
ClockStep == DurationDays + 1

\* GET /plans: limits.usageLimit of each plan
PlanQuota(p) ==
    CASE p = "free" -> 5
      [] p = "basic" -> 50
      [] p = "premium" -> 9999

\* usageLimit default of the User schema
SchemaUsageLimit == 5

PaidPlans == {"basic", "premium"}
\* plan ids a client may send to create-order
PlanInputs == {"basic", "premium", "free", "gold"}

\* payer id carried by a webhook event
PayerId == "PAYER"

(* ------------------------------- state --------------------------------- *)

VARIABLES
    users,      \* the User collection in insertion order: a sequence of documents
    now,        \* the clock (Date.now()), in days
    env,        \* the deployment: PAYPAL_CLIENT_ID unset/"sb", mongoose strictQuery
    clients,    \* the accounts whose requests are followed
    applied,    \* history: per account, the order last applied by capture-order
    res,        \* the response to the request just handled, until it is sent
    inflight,   \* the requests being handled at the same time, by slot
    exhaustion  \* history: per account, the requests past the guard of
                \* /generate when usageCount reached usageLimit

vars == <<users, now, env, clients, applied, res, inflight, exhaustion>>

UserIds == 1..Len(users)

\* an account sends requests once it exists (auth finds the user of the token)
Clients == clients \cap UserIds

Times == {k * ClockStep : k \in 0..MaxTicks}

\* order ids: `TEST-ORDER-${Date.now()}` of the mock path, and an id the
\* mock path never issued
TestOrder(t) == <<"TEST-ORDER", t>>
BogusOrder == <<"BOGUS", 0>>
\* order ids a client or a webhook event may carry
OrderIds == {TestOrder(t) : t \in Times} \cup {BogusOrder}

\* new User({googleId, email, name, avatar, subscription: {status: 'free',
\* endDate: null}}) with the schema's defaults
NewUser ==
    [status |-> "free", planId |-> None, customerId |-> None,
     startDate |-> Null, endDate |-> Null, isActive |-> FALSE,
     pendingOrderId |-> NoOrder, pendingPlanId |-> None,
     usageLimit |-> SchemaUsageLimit, usageCount |-> 0]

NoView == <<>>
NoRes ==
    [op |-> "none", u |-> 0, code |-> 0, msg |-> "", order |-> NoOrder,
     plan |-> None, view |-> NoView, gateway |-> "none"]

\* a handled request: the route, the account of the token, the order and
\* plan of the request, the status code and body of the response, and
\* what the gateway answered while handling it ("none": it was not asked)
Response(op, u, code, msg, order, plan, view, gateway) ==
    [op |-> op, u |-> u, code |-> code, msg |-> msg, order |-> order,
     plan |-> plan, view |-> view, gateway |-> gateway]

\* a free slot, and the request of a slot: the route, the user, the await
\* the handler stands at, what the rest of the handler uses of the
\* document it read, and the order of the request
Idle ==
    [op |-> "none", u |-> 0, pc |-> "idle", snap |-> None, order |-> NoOrder]
Request(op, u, pc, snap, order) ==
    [op |-> op, u |-> u, pc |-> pc, snap |-> snap, order |-> order]

Slots == 1..MaxRequests

Init ==
    /\ inflight = [i \in Slots |-> Idle]
    /\ exhaustion = [u \in 1..MaxUsers |-> Null]
    /\ users = <<>>
    /\ now = 0
    /\ env \in [sandbox : BOOLEAN, strictQuery : BOOLEAN]
    /\ clients \in {{u} : u \in 1..MaxUsers}
    /\ applied = <<>>
    /\ res = NoRes

(* ----------------------------- the clock ------------------------------- *)

Tick ==
    /\ res = NoRes
    /\ now + ClockStep <= MaxTicks * ClockStep
    /\ now' = now + ClockStep
    /\ UNCHANGED <<inflight, exhaustion, users, env, clients, applied, res>>

(* --------------------------- the deployment ---------------------------- *)

\* process.env.PAYPAL_CLIENT_ID is read at every gateway call: the server
\* is restarted with PayPal credentials set or removed, over the same
\* database
Reconfigure ==
    /\ res = NoRes
    /\ env' = [env EXCEPT !.sandbox = ~@]
    /\ UNCHANGED <<inflight, exhaustion, users, now, clients, applied, res>>

(* ------------------------ account creation ----------------------------- *)

\* GoogleStrategy verify callback, profile unknown: create and save the user
Register ==
    /\ res = NoRes
    /\ Len(users) < MaxUsers
    /\ users' = Append(users, NewUser)
    /\ applied' = Append(applied, NoOrder)
    /\ res' = Response("register", Len(users) + 1, 200, "", NoOrder, None, NoView, "none")
    /\ UNCHANGED <<inflight, exhaustion, now, env, clients>>

(* --------------------------- PayPal gateway ---------------------------- *)

\* createOrder(planId, userId): the order, or "throw".  An unknown plan
\* throws.  With PAYPAL_CLIENT_ID unset or "sb" the mock order is returned.
\* Otherwise the request is a plain object literal and request.prefer(...)
\* is not a function: the TypeError is caught, logged and thrown again.
CreateOrder(planId) ==
    IF planId \notin PaidPlans THEN [threw |-> TRUE, id |-> NoOrder]
    ELSE IF env.sandbox THEN [threw |-> FALSE, id |-> TestOrder(now)]
    ELSE [threw |-> TRUE, id |-> NoOrder]

\* what the provider may answer to a capture: a status, or a failure
CaptureOutcomes == {"COMPLETED", "PENDING", "throw"}

\* captureOrder(orderId): the status of the capture, or "throw".  In the
\* mock path an order id starting with TEST-ORDER- is COMPLETED; any other
\* capture is the provider's answer.
CaptureOrder(orderId, outcome) ==
    IF env.sandbox /\ orderId[1] = "TEST-ORDER" THEN "COMPLETED" ELSE outcome

(* ------------------------- POST /create-order -------------------------- *)

\* slip: an order that is pending is not replaced
StorePendingKeepFirst(rec, orderId, planId) ==
    IF rec.pendingOrderId # NoOrder THEN rec
    ELSE [rec EXCEPT !.pendingOrderId = orderId, !.pendingPlanId = planId]

\* slip: the plan of the order is not stored
StorePendingNoPlan(rec, orderId, planId) ==
    [rec EXCEPT !.pendingOrderId = orderId, !.pendingPlanId = None]

\* User.findByIdAndUpdate(id, {'payment.pendingOrderId', 'payment.pendingPlanId'})
StorePending(rec, orderId, planId) ==
    [rec EXCEPT !.pendingOrderId = orderId, !.pendingPlanId = planId]

StartUpgradeInvalidPlan(u, planId) ==
    /\ planId \notin PaidPlans
    /\ res' = Response("create-order", u, 400, "Invalid plan selected", NoOrder, planId, NoView, "none")
    /\ UNCHANGED <<inflight, exhaustion, users, now, env, clients, applied>>

\* slip: the plan is stored before createOrder is called
StartUpgradeGatewayErrorPlanStored(u, planId) ==
    /\ planId \in PaidPlans
    /\ CreateOrder(planId).threw
    /\ users' = [users EXCEPT ![u].pendingPlanId = planId]
    /\ res' = Response("create-order", u, 500, "Server error", NoOrder, planId, NoView,
                       "throw")
    /\ UNCHANGED <<inflight, exhaustion, now, env, clients, applied>>

StartUpgradeGatewayError(u, planId) ==
    /\ planId \in PaidPlans
    /\ CreateOrder(planId).threw
    /\ res' = Response("create-order", u, 500, "Server error", NoOrder, planId, NoView,
                       "throw")
    /\ UNCHANGED <<inflight, exhaustion, users, now, env, clients, applied>>

StartUpgradeStored(u, planId) ==
    /\ planId \in PaidPlans
    /\ LET order == CreateOrder(planId) IN
        /\ ~order.threw
        /\ order.id # NoOrder
        /\ users' = [users EXCEPT ![u] = StorePending(@, order.id, planId)]
        /\ applied' = [applied EXCEPT ![u] = NoOrder]
        /\ res' = Response("create-order", u, 200, "", order.id, planId, NoView,
                           "CREATED")
    /\ UNCHANGED <<inflight, exhaustion, now, env, clients>>

StartUpgrade ==
    /\ res = NoRes
    /\ \E u \in Clients, planId \in PlanInputs :
          \/ StartUpgradeInvalidPlan(u, planId)
          \/ StartUpgradeGatewayError(u, planId)
          \/ StartUpgradeStored(u, planId)

(* ------------------------- POST /capture-order ------------------------- *)

\* capture path: quota of the purchased plan
CaptureUsageLimit(planId) ==
    IF planId = "basic" THEN 50
    ELSE IF planId = "premium" THEN 200
    ELSE 10

\* slip: the pending order is left in place
HandleCompletedPaymentKeepPending(rec, planId, t) ==
    [rec EXCEPT !.status = planId, !.planId = planId,
                !.startDate = t, !.endDate = t + DurationDays,
                !.isActive = TRUE,
                !.usageLimit = CaptureUsageLimit(planId),
                !.usageCount = 0]

\* slip: the usage of the previous period is carried over
HandleCompletedPaymentKeepUsage(rec, planId, t) ==
    [rec EXCEPT !.status = planId, !.planId = planId,
                !.startDate = t, !.endDate = t + DurationDays,
                !.isActive = TRUE,
                !.pendingOrderId = NoOrder, !.pendingPlanId = None,
                !.usageLimit = CaptureUsageLimit(planId)]

\* handleCompletedPayment(user, planId): the $set of the dotted paths
HandleCompletedPayment(rec, planId, t) ==
    [rec EXCEPT !.status = planId, !.planId = planId,
                !.startDate = t, !.endDate = t + DurationDays,
                !.isActive = TRUE,
                !.pendingOrderId = NoOrder, !.pendingPlanId = None,
                !.usageLimit = CaptureUsageLimit(planId),
                !.usageCount = 0]

\* slip: the comparison is skipped for a user without a pending order
OrderMismatchOnlyWhenPending(rec, orderId) ==
    rec.pendingOrderId # NoOrder /\ rec.pendingOrderId # orderId

\* user.payment.pendingOrderId !== orderId
OrderMismatch(rec, orderId) == rec.pendingOrderId # orderId

\* slip: any status the provider returns counts as a capture
CaptureCompletedUnlessThrown(status) == status # "throw"

\* captureData.status === 'COMPLETED'
CaptureCompleted(status) == status = "COMPLETED"

ConfirmCaptureNoOrderId(u, orderId) ==
    /\ orderId = NoOrder
    /\ res' = Response("capture-order", u, 400, "Order ID is required", orderId, None, NoView,
                       "none")
    /\ UNCHANGED <<inflight, exhaustion, users, now, env, clients, applied>>

ConfirmCaptureMismatch(u, orderId) ==
    /\ orderId # NoOrder
    /\ OrderMismatch(users[u], orderId)
    /\ res' = Response("capture-order", u, 400, "Order ID does not match pending order",
                       orderId, None, NoView, "none")
    /\ UNCHANGED <<inflight, exhaustion, users, now, env, clients, applied>>

ConfirmCaptureGateway(u, orderId, outcome) ==
    /\ orderId # NoOrder
    /\ ~OrderMismatch(users[u], orderId)
    /\ LET status == CaptureOrder(orderId, outcome)
           planId == users[u].pendingPlanId
       IN  IF status = "throw"
           THEN /\ res' = Response("capture-order", u, 500, "Server error", orderId, None,
                                   NoView, status)
                /\ UNCHANGED <<inflight, exhaustion, users, applied>>
           ELSE IF CaptureCompleted(status)
           THEN /\ users' = [users EXCEPT ![u] = HandleCompletedPayment(@, planId, now)]
                /\ applied' = [applied EXCEPT ![u] = orderId]
                /\ res' = Response("capture-order", u, 200, "COMPLETED", orderId, planId, NoView,
                                   status)
           ELSE /\ res' = Response("capture-order", u, 400, "Payment not completed",
                                   orderId, None, NoView, status)
                /\ UNCHANGED <<inflight, exhaustion, users, applied>>
    /\ UNCHANGED <<inflight, exhaustion, now, env, clients>>

ConfirmCapture ==
    /\ res = NoRes
    /\ \E u \in Clients, orderId \in OrderIds \cup {NoOrder} :
          \/ ConfirmCaptureNoOrderId(u, orderId)
          \/ ConfirmCaptureMismatch(u, orderId)
          \/ \E outcome \in CaptureOutcomes : ConfirmCaptureGateway(u, orderId, outcome)

(* ---------------------------- POST /webhook ---------------------------- *)

EventTypes ==
    {"PAYMENT.CAPTURE.COMPLETED", "PAYMENT.CAPTURE.DENIED",
     "PAYMENT.CAPTURE.REFUNDED", "CHECKOUT.ORDER.APPROVED"}

\* what the provider may answer to a verification request
VerifyOutcomes == {"SUCCESS", "FAILURE", "throw"}

\* slip: any answer of the provider counts as a verification
VerifyWebhookSignatureAnyAnswer(outcome) == outcome # "throw"

\* verifyWebhookSignature: verification_status === 'SUCCESS'; false when
\* the request throws
VerifyWebhookSignature(outcome) == outcome = "SUCCESS"

\* User.findOne({'subscription.orderId': orderId}): the account found, or 0.
\* The schema has no path subscription.orderId and is strict, so no update
\* ever stores one.  With strictQuery the unknown path is removed from the
\* filter and the first document matches; without it no document matches.
FindBySubscriptionOrderId(orderId) ==
    IF env.strictQuery /\ Len(users) > 0 THEN 1 ELSE 0

\* webhook path: user.subscription.pendingPlanId || 'basic'; the schema
\* has no path subscription.pendingPlanId
WebhookPlanId(rec) == "basic"

\* webhook path: quota of the purchased plan
WebhookUsageLimit(planId) == IF planId = "basic" THEN 50 ELSE 9999

\* handlePaymentCompleted: the subscription sub-document is replaced
\* (isActive falls back to the schema default), payment.* is not touched
HandlePaymentCompleted(rec, payerId, t) ==
    LET planId == WebhookPlanId(rec) IN
    [rec EXCEPT !.status = planId, !.planId = planId,
                !.customerId = payerId,
                !.startDate = t, !.endDate = t + DurationDays,
                !.isActive = FALSE,
                !.usageLimit = WebhookUsageLimit(planId),
                !.usageCount = 0]

\* handlePaymentDeniedOrRefunded: the subscription sub-document is
\* replaced by the free one, keeping customerId
HandlePaymentDeniedOrRefunded(rec) ==
    [rec EXCEPT !.status = "free", !.planId = "free",
                !.startDate = Null, !.endDate = Null,
                !.isActive = FALSE,
                !.usageLimit = 5]

WebhookResponse(code, eventType, orderId, outcome) ==
    Response("webhook", 0, code, eventType, orderId, None, NoView, outcome)

\* slip: an error of the verification request reaches the route's catch
WebhookRejectedUnlessThrown(eventType, orderId, outcome) ==
    /\ ~VerifyWebhookSignature(outcome)
    /\ res' = WebhookResponse(IF outcome = "throw" THEN 500 ELSE 401,
                              eventType, orderId, outcome)
    /\ UNCHANGED <<inflight, exhaustion, users, now, env, clients, applied>>

WebhookRejected(eventType, orderId, outcome) ==
    /\ ~VerifyWebhookSignature(outcome)
    /\ res' = WebhookResponse(401, eventType, orderId, outcome)
    /\ UNCHANGED <<inflight, exhaustion, users, now, env, clients, applied>>

WebhookCompleted(eventType, orderId, outcome) ==
    /\ VerifyWebhookSignature(outcome)
    /\ eventType = "PAYMENT.CAPTURE.COMPLETED"
    /\ LET u == FindBySubscriptionOrderId(orderId) IN
         users' = IF u # 0 /\ users[u].status = "free"
                  THEN [users EXCEPT ![u] = HandlePaymentCompleted(@, PayerId, now)]
                  ELSE users
    /\ res' = WebhookResponse(200, eventType, orderId, outcome)
    /\ UNCHANGED <<inflight, exhaustion, now, env, clients, applied>>

WebhookDeniedOrRefunded(eventType, orderId, outcome) ==
    /\ VerifyWebhookSignature(outcome)
    /\ eventType \in {"PAYMENT.CAPTURE.DENIED", "PAYMENT.CAPTURE.REFUNDED"}
    /\ LET u == FindBySubscriptionOrderId(orderId) IN
         users' = IF u # 0
                  THEN [users EXCEPT ![u] = HandlePaymentDeniedOrRefunded(@)]
                  ELSE users
    /\ res' = WebhookResponse(200, eventType, orderId, outcome)
    /\ UNCHANGED <<inflight, exhaustion, now, env, clients, applied>>

WebhookUnhandled(eventType, orderId, outcome) ==
    /\ VerifyWebhookSignature(outcome)
    /\ eventType \notin {"PAYMENT.CAPTURE.COMPLETED", "PAYMENT.CAPTURE.DENIED",
                         "PAYMENT.CAPTURE.REFUNDED"}
    /\ res' = WebhookResponse(200, eventType, orderId, outcome)
    /\ UNCHANGED <<inflight, exhaustion, users, now, env, clients, applied>>

Webhook ==
    /\ res = NoRes
    /\ \E eventType \in EventTypes, orderId \in OrderIds, outcome \in VerifyOutcomes :
          \/ WebhookRejected(eventType, orderId, outcome)
          \/ WebhookCompleted(eventType, orderId, outcome)
          \/ WebhookDeniedOrRefunded(eventType, orderId, outcome)
          \/ WebhookUnhandled(eventType, orderId, outcome)

(* -------------------------- GET /subscription -------------------------- *)

\* user.subscription.endDate && new Date(user.subscription.endDate) < new Date()
ViewExpired(rec, t) == rec.endDate # Null /\ rec.endDate < t

\* slip: only the status is reset, as checkSubscription does
ViewDowngradeStatusOnly(rec) == [rec EXCEPT !.status = "free"]

\* the reset of an expired subscription: the sub-document is replaced by
\* the free one, keeping customerId; usageLimit: 5
ViewDowngrade(rec) ==
    [rec EXCEPT !.status = "free", !.planId = "free",
                !.startDate = Null, !.endDate = Null,
                !.isActive = FALSE,
                !.usageLimit = 5]

\* the body returned after the reset
ExpiredView(rec) ==
    [status |-> "free", planId |-> "free", startDate |-> Null, endDate |-> Null,
     isActive |-> TRUE, daysRemaining |-> Null,
     usageLimit |-> 5, usageCount |-> rec.usageCount]

\* the body returned otherwise
CurrentView(rec, t) ==
    [status |-> rec.status, planId |-> rec.planId,
     startDate |-> rec.startDate, endDate |-> rec.endDate,
     isActive |-> (rec.status # "free"),
     daysRemaining |-> IF rec.endDate # Null THEN rec.endDate - t ELSE Null,
     usageLimit |-> rec.usageLimit, usageCount |-> rec.usageCount]

GetSubscriptionViewExpired(u) ==
    /\ ViewExpired(users[u], now)
    /\ users' = [users EXCEPT ![u] = ViewDowngrade(@)]
    /\ res' = Response("subscription", u, 200, "", NoOrder, None, ExpiredView(users[u]),
                       "none")
    /\ UNCHANGED <<inflight, exhaustion, now, env, clients, applied>>

GetSubscriptionViewCurrent(u) ==
    /\ ~ViewExpired(users[u], now)
    /\ res' = Response("subscription", u, 200, "", NoOrder, None, CurrentView(users[u], now),
                       "none")
    /\ UNCHANGED <<inflight, exhaustion, users, now, env, clients, applied>>

GetSubscriptionView ==
    /\ res = NoRes
    /\ \E u \in Clients :
          \/ GetSubscriptionViewExpired(u)
          \/ GetSubscriptionViewCurrent(u)

(* ----------------- GET /users/dashboard, GET /auth/me ------------------ *)

\* Math.round((user.usageCount / user.usageLimit) * 100), 0 without a limit
UsagePercentage(rec) ==
    IF rec.usageLimit > 0
    THEN (200 * rec.usageCount + rec.usageLimit) \div (2 * rec.usageLimit)
    ELSE 0

\* the dashboard body: the plan as stored, isActive and daysRemaining
\* computed from endDate
DashboardView(rec, t) ==
    [currentPlan |-> rec.status,
     isActive |-> IF rec.endDate # Null THEN rec.endDate > t ELSE TRUE,
     daysRemaining |-> IF rec.endDate # Null /\ rec.endDate > t
                       THEN rec.endDate - t ELSE Null,
     usageCount |-> rec.usageCount, usageLimit |-> rec.usageLimit,
     usagePercentage |-> UsagePercentage(rec)]

\* GET /users/dashboard: User.findById and res.json, no write
GetDashboard ==
    /\ res = NoRes
    /\ \E u \in Clients :
          res' = Response("dashboard", u, 200, "", NoOrder, None,
                          DashboardView(users[u], now), "none")
    /\ UNCHANGED <<inflight, exhaustion, users, now, env, clients, applied>>

\* GET /auth/me and GET /users/me: res.json(user), no write
GetMe ==
    /\ res = NoRes
    /\ \E u \in Clients :
          res' = Response("me", u, 200, "", NoOrder, None, users[u], "none")
    /\ UNCHANGED <<inflight, exhaustion, users, now, env, clients, applied>>

(* ------------------- checkSubscription, POST /generate ----------------- *)

\* slip: the limit itself is still allowed
QuotaExceededStrict(rec) == rec.status = "free" /\ rec.usageCount > rec.usageLimit

\* slip: the free tier has no limit
QuotaExceededNever(rec) == FALSE

\* free tier and usageCount >= usageLimit
QuotaExceeded(rec) == rec.status = "free" /\ rec.usageCount >= rec.usageLimit

\* paid tier whose endDate has passed
SubscriptionExpired(rec, t) ==
    rec.status \in PaidPlans /\ rec.endDate # Null /\ rec.endDate < t

\* slip: the downgrade is not saved
CheckSubscriptionDowngradeNotSaved(rec) == rec

\* User.findByIdAndUpdate(req.user._id, {'subscription.status': 'free'})
CheckSubscriptionDowngrade(rec) == [rec EXCEPT !.status = "free"]

\* checkSubscription(req.user): the verdict of the guard
CheckSubscription(rec, t) ==
    IF QuotaExceeded(rec) THEN "limitReached"
    ELSE IF SubscriptionExpired(rec, t) THEN "subscriptionExpired"
    ELSE "next"

\* what the handler may meet after the guard: a missing prompt, a failure
\* of generateContent, of Content.save or of the usage update, or success
GenerateOutcomes == {"ok", "noPrompt", "fail"}

\* slip: a generation is counted twice
IncrementUsageTwice(rec) == [rec EXCEPT !.usageCount = @ + 2]

\* User.findByIdAndUpdate(id, {$inc: {usageCount: 1}})
IncrementUsage(rec) == [rec EXCEPT !.usageCount = @ + 1]

GenerateResponse(u, code, msg) ==
    Response("generate", u, code, msg, NoOrder, None, NoView, "none")

\* the guard answers 403 and the handler does not run; an expired paid
\* subscription is set to free first
GenerateDenied(u) ==
    LET verdict == CheckSubscription(users[u], now) IN
    /\ verdict # "next"
    /\ users' = IF verdict = "subscriptionExpired"
                THEN [users EXCEPT ![u] = CheckSubscriptionDowngrade(@)]
                ELSE users
    /\ res' = GenerateResponse(u, 403, verdict)
    /\ UNCHANGED <<inflight, exhaustion, now, env, clients, applied>>

GenerateNoPrompt(u, outcome) ==
    /\ CheckSubscription(users[u], now) = "next"
    /\ outcome = "noPrompt"
    /\ res' = GenerateResponse(u, 400, "Prompt is required")
    /\ UNCHANGED <<inflight, exhaustion, users, now, env, clients, applied>>

GenerateFailed(u, outcome) ==
    /\ CheckSubscription(users[u], now) = "next"
    /\ outcome = "fail"
    /\ res' = GenerateResponse(u, 500, "Error generating content")
    /\ UNCHANGED <<inflight, exhaustion, users, now, env, clients, applied>>

GenerateSaved(u, outcome) ==
    /\ CheckSubscription(users[u], now) = "next"
    /\ outcome = "ok"
    /\ users[u].usageCount < MaxUsage
    /\ users' = [users EXCEPT ![u] = IncrementUsage(@)]
    /\ res' = GenerateResponse(u, 200, "")
    /\ UNCHANGED <<inflight, exhaustion, now, env, clients, applied>>

Generate ==
    /\ res = NoRes
    /\ \E u \in Clients :
          \/ GenerateDenied(u)
          \/ \E outcome \in GenerateOutcomes :
                \/ GenerateNoPrompt(u, outcome)
                \/ GenerateFailed(u, outcome)
                \/ GenerateSaved(u, outcome)

(* ------------------------------ responses ------------------------------ *)

\* res.json(...): the response leaves the server
Respond ==
    /\ res # NoRes
    /\ res' = NoRes
    /\ UNCHANGED <<inflight, exhaustion, users, now, env, clients, applied>>

(* --------------------------- specification ----------------------------- *)

Next ==
    \/ Tick
    \/ Reconfigure
    \/ Register
    \/ StartUpgrade
    \/ ConfirmCapture
    \/ Webhook
    \/ GetSubscriptionView
    \/ GetDashboard
    \/ GetMe
    \/ Generate
    \/ Respond

Spec == Init /\ [][Next]_vars

(* ----------------------- concurrent requests --------------------------- *)

\* The handlers are async functions: between two awaits of one request the
\* server runs steps of other requests.  A step below is the code from one
\* database or gateway await to the next; a read keeps the document it
\* returned, a write is one atomic update of the stored document.  The
\* step that sends the response frees the slot.

\* a new request takes the first free slot
FreeSlot(i) ==
    /\ inflight[i].op = "none"
    /\ \A j \in 1..(i - 1) : inflight[j].op # "none"

\* the other requests to /generate of user u that are past the guard
PastGuard(i, u) ==
    {j \in Slots \ {i} : /\ inflight[j].op = "generate"
                         /\ inflight[j].u = u
                         /\ inflight[j].pc = "handler"}

ConcRegister ==
    /\ Len(users) < MaxUsers
    /\ users' = Append(users, NewUser)
    /\ applied' = Append(applied, NoOrder)
    /\ UNCHANGED <<now, env, clients, res, inflight, exhaustion>>

\* auth reads the user, checkSubscription evaluates req.user up to its await
GenerateRead(i, u) ==
    /\ FreeSlot(i)
    /\ LET verdict == CheckSubscription(users[u], now) IN
       inflight' = [inflight EXCEPT ![i] =
          IF verdict = "limitReached" THEN Idle
          ELSE IF verdict = "subscriptionExpired"
               THEN Request("generate", u, "downgrade", None, NoOrder)
               ELSE Request("generate", u, "handler", None, NoOrder)]
    /\ UNCHANGED <<users, now, env, clients, applied, res, exhaustion>>

\* checkSubscription: the update of subscription.status, then 403
GenerateDowngradeWrite(i) ==
    /\ inflight[i].op = "generate" /\ inflight[i].pc = "downgrade"
    /\ LET u == inflight[i].u IN
       /\ users' = [users EXCEPT ![u] = CheckSubscriptionDowngrade(@)]
       /\ inflight' = [inflight EXCEPT ![i] =
             Idle]
    /\ UNCHANGED <<now, env, clients, applied, res, exhaustion>>

\* the handler of /generate: generateContent, Content.save, $inc usageCount
GenerateHandler(i, outcome) ==
    /\ inflight[i].op = "generate" /\ inflight[i].pc = "handler"
    /\ LET u == inflight[i].u IN
       IF outcome = "ok"
       THEN /\ users[u].usageCount < MaxUsage + MaxRequests - 1
            /\ users' = [users EXCEPT ![u] = IncrementUsage(@)]
            /\ exhaustion' =
                 IF /\ users'[u].status = "free"
                    /\ users'[u].usageCount = users'[u].usageLimit
                 THEN [exhaustion EXCEPT ![u] = Cardinality(PastGuard(i, u))]
                 ELSE exhaustion
            /\ inflight' = [inflight EXCEPT ![i] = Idle]
       ELSE /\ inflight' = [inflight EXCEPT ![i] =
                 Idle]
            /\ UNCHANGED <<users, exhaustion>>
    /\ UNCHANGED <<now, env, clients, applied, res>>

\* GET /subscription: User.findById and the expiry test
ViewRead(i, u) ==
    /\ FreeSlot(i)
    /\ inflight' = [inflight EXCEPT ![i] =
          IF ViewExpired(users[u], now)
          THEN Request("subscription", u, "reset", users[u].customerId, NoOrder)
          ELSE Idle]
    /\ UNCHANGED <<users, now, env, clients, applied, res, exhaustion>>

\* GET /subscription: the reset, with the customerId that was read
ViewResetWrite(i) ==
    /\ inflight[i].op = "subscription" /\ inflight[i].pc = "reset"
    /\ LET u == inflight[i].u IN
       /\ users' = [users EXCEPT ![u] =
             [ViewDowngrade(@) EXCEPT !.customerId = inflight[i].snap]]
       /\ inflight' = [inflight EXCEPT ![i] = Idle]
    /\ UNCHANGED <<now, env, clients, applied, res, exhaustion>>

\* POST /create-order: createOrder, then the update of the pending payment
ConcStartUpgrade(i, u, planId) ==
    /\ FreeSlot(i)
    /\ LET order == CreateOrder(planId) IN
       IF planId \notin PaidPlans
       THEN /\ inflight' = [inflight EXCEPT ![i] =
                 Idle]
            /\ UNCHANGED <<users, applied>>
       ELSE IF order.threw
       THEN /\ inflight' = [inflight EXCEPT ![i] =
                 Idle]
            /\ UNCHANGED <<users, applied>>
       ELSE /\ users' = [users EXCEPT ![u] = StorePending(@, order.id, planId)]
            /\ applied' = [applied EXCEPT ![u] = NoOrder]
            /\ inflight' = [inflight EXCEPT ![i] =
                 Idle]
    /\ UNCHANGED <<now, env, clients, res, exhaustion>>

\* POST /capture-order: User.findById and the comparison with the pending order
CaptureRead(i, u, orderId) ==
    /\ FreeSlot(i)
    /\ inflight' = [inflight EXCEPT ![i] =
          IF orderId = NoOrder
          THEN Idle
          ELSE IF OrderMismatch(users[u], orderId)
          THEN Idle
          ELSE Request("capture-order", u, "capture", users[u].pendingPlanId, orderId)]
    /\ UNCHANGED <<users, now, env, clients, applied, res, exhaustion>>

\* POST /capture-order: captureOrder, then handleCompletedPayment with the
\* pending plan that was read
CaptureWrite(i, outcome) ==
    /\ inflight[i].op = "capture-order" /\ inflight[i].pc = "capture"
    /\ LET u == inflight[i].u
           orderId == inflight[i].order
           planId == inflight[i].snap
           status == CaptureOrder(orderId, outcome)
       IN  IF status = "throw"
           THEN /\ inflight' = [inflight EXCEPT ![i] =
                     Idle]
                /\ UNCHANGED <<users, applied>>
           ELSE IF CaptureCompleted(status)
           THEN /\ users' = [users EXCEPT ![u] = HandleCompletedPayment(@, planId, now)]
                /\ applied' = [applied EXCEPT ![u] = orderId]
                /\ inflight' = [inflight EXCEPT ![i] =
                     Idle]
           ELSE /\ inflight' = [inflight EXCEPT ![i] =
                     Idle]
                /\ UNCHANGED <<users, applied>>
    /\ UNCHANGED <<now, env, clients, res, exhaustion>>

\* POST /webhook: verifyWebhookSignature, the switch and User.findOne
WebhookRead(i, eventType, orderId, outcome) ==
    /\ FreeSlot(i)
    /\ LET u == FindBySubscriptionOrderId(orderId) IN
       inflight' = [inflight EXCEPT ![i] =
          IF ~VerifyWebhookSignature(outcome)
          THEN Idle
          ELSE IF /\ eventType = "PAYMENT.CAPTURE.COMPLETED"
                  /\ u # 0 /\ users[u].status = "free"
          THEN Request("webhook", u, "apply", WebhookPlanId(users[u]), orderId)
          ELSE IF /\ eventType \in {"PAYMENT.CAPTURE.DENIED", "PAYMENT.CAPTURE.REFUNDED"}
                  /\ u # 0
          THEN Request("webhook", u, "revert", users[u].customerId, orderId)
          ELSE Idle]
    /\ UNCHANGED <<users, now, env, clients, applied, res, exhaustion>>

\* POST /webhook: the update of handlePaymentCompleted or of
\* handlePaymentDeniedOrRefunded, computed from the document that was read
WebhookWrite(i) ==
    /\ inflight[i].op = "webhook" /\ inflight[i].pc \in {"apply", "revert"}
    /\ LET u == inflight[i].u
           snap == inflight[i].snap
       IN  /\ users' = [users EXCEPT ![u] =
                 IF inflight[i].pc = "apply"
                 THEN [HandlePaymentCompleted(@, PayerId, now) EXCEPT
                          !.status = snap, !.planId = snap]
                 ELSE [HandlePaymentDeniedOrRefunded(@) EXCEPT !.customerId = snap]]
           /\ inflight' = [inflight EXCEPT ![i] =
                 Idle]
    /\ UNCHANGED <<now, env, clients, applied, res, exhaustion>>

ConcGenerate ==
    \E i \in Slots :
        \/ \E u \in Clients : GenerateRead(i, u)
        \/ GenerateDowngradeWrite(i)
        \/ \E outcome \in GenerateOutcomes : GenerateHandler(i, outcome)

ConcView == \E i \in Slots : (\E u \in Clients : ViewRead(i, u)) \/ ViewResetWrite(i)

ConcUpgrade ==
    \E i \in Slots, u \in Clients, planId \in PlanInputs : ConcStartUpgrade(i, u, planId)

ConcCapture ==
    \E i \in Slots :
        \/ \E u \in Clients, orderId \in OrderIds \cup {NoOrder} : CaptureRead(i, u, orderId)
        \/ \E outcome \in CaptureOutcomes : CaptureWrite(i, outcome)

ConcWebhook ==
    \E i \in Slots :
        \/ \E eventType \in EventTypes, orderId \in OrderIds, outcome \in VerifyOutcomes :
              WebhookRead(i, eventType, orderId, outcome)
        \/ WebhookWrite(i)

ConcNext ==
    \/ Tick
    \/ ConcRegister
    \/ ConcGenerate
    \/ ConcView
    \/ ConcUpgrade
    \/ ConcCapture
    \/ ConcWebhook

\* the requests of the first account are followed
ConcInit == Init /\ clients = {1}

ConcSpec == ConcInit /\ [][ConcNext]_vars

\* concurrent requests to /generate of accounts that stay on the free tier
QuotaGenerate ==
    \E i \in Slots :
        \/ \E u \in Clients : GenerateRead(i, u)
        \/ \E outcome \in GenerateOutcomes : GenerateHandler(i, outcome)

QuotaNext ==
    \/ Tick
    \/ ConcRegister
    \/ QuotaGenerate

QuotaSpec == ConcInit /\ [][QuotaNext]_vars

(* ------------------------------ properties ----------------------------- *)

\* the step handles a request of route op
Handles(op) == res = NoRes /\ res'.op = op

\* C1: a capture-order whose order id differs from the stored pending
\* order id (also when none is pending) is answered 400 "Order ID does not
\* match pending order" without asking the gateway and without changing
\* any document.
C1_OrderBinding ==
    [][(/\ Handles("capture-order")
        /\ res'.order # NoOrder
        /\ res'.order # users[res'.u].pendingOrderId)
       => (/\ res'.code = 400
           /\ res'.msg = "Order ID does not match pending order"
           /\ res'.gateway = "none"
           /\ users' = users)]_vars

\* a capture-order was rejected for an account that holds another pending
\* order, and one for an account that holds none
C1_Witness ==
    /\ res.op = "capture-order"
    /\ res.msg = "Order ID does not match pending order"
    /\ users[res.u].pendingOrderId # NoOrder
    /\ res.order # users[res.u].pendingOrderId

\* C2: a webhook whose signature verification does not succeed is answered
\* 401 and changes no field of any document.
C2_WebhookRejection ==
    [][(Handles("webhook") /\ res'.gateway # "SUCCESS")
       => (res'.code = 401 /\ users' = users)]_vars

\* a payment-completed webhook naming the pending order of a free account
\* was rejected
C2_Witness ==
    /\ res.op = "webhook"
    /\ res.code = 401
    /\ res.msg = "PAYMENT.CAPTURE.COMPLETED"
    /\ \E u \in UserIds :
          users[u].pendingOrderId = res.order /\ users[u].status = "free"

\* C3: for a free user, create-order for plan p followed by a completed
\* capture-order leaves status = planId = p, usageCount = 0, usageLimit =
\* the plan's quota in GET /plans, startDate = now, endDate = now + 30 days
\* and no pending payment, and GET /subscription reports these values.
C3_EndToEndUpgrade ==
    [][(/\ Handles("capture-order")
        /\ res'.code = 200
        /\ users[res'.u].status = "free"
        /\ users[res'.u].pendingPlanId \in PaidPlans)
       => LET p == users[res'.u].pendingPlanId
              r == users'[res'.u]
              v == CurrentView(r, now)
          IN  /\ r.status = p /\ r.planId = p
              /\ r.usageCount = 0
              /\ r.usageLimit = PlanQuota(p)
              /\ r.startDate = now /\ r.endDate = now + DurationDays
              /\ r.pendingOrderId = NoOrder /\ r.pendingPlanId = None
              /\ ~ViewExpired(r, now)
              /\ v.status = p /\ v.usageCount = 0
              /\ v.usageLimit = PlanQuota(p)
              /\ v.endDate = now + DurationDays]_vars

\* C4: whatever transition left a user on plan p, the user's usageLimit is
\* the quota GET /plans reports for p.
C4_QuotaFromCatalog ==
    \A u \in UserIds : users[u].usageLimit = PlanQuota(users[u].status)

\* C5: a verified PAYMENT.CAPTURE.DENIED or REFUNDED webhook naming the
\* order through which a user became basic or premium sets that user to
\* free with the free quota and no end date, and GET /subscription then
\* shows free.
C5_RefundReverts ==
    [][(/\ Handles("webhook")
        /\ res'.code = 200
        /\ res'.msg \in {"PAYMENT.CAPTURE.DENIED", "PAYMENT.CAPTURE.REFUNDED"})
       => \A u \in UserIds :
            (applied[u] = res'.order /\ users[u].status \in PaidPlans)
            => LET r == users'[u] IN
               /\ r.status = "free"
               /\ r.usageLimit = PlanQuota("free")
               /\ r.endDate = Null
               /\ CurrentView(r, now).status = "free"]_vars

\* C6: a verified PAYMENT.CAPTURE.COMPLETED webhook naming the pending
\* order of a free user makes that user active on the pending plan, with
\* the quota and the duration of the capture path.
C6_WebhookApply ==
    [][(/\ Handles("webhook")
        /\ res'.code = 200
        /\ res'.msg = "PAYMENT.CAPTURE.COMPLETED")
       => \A u \in UserIds :
            (users[u].pendingOrderId = res'.order /\ users[u].status = "free")
            => LET p == users[u].pendingPlanId
                   r == users'[u]
               IN  /\ r.status = p /\ r.planId = p
                   /\ r.usageLimit = HandleCompletedPayment(users[u], p, now).usageLimit
                   /\ r.endDate = HandleCompletedPayment(users[u], p, now).endDate]_vars

\* C7: a capture-order for the order that the last capture-order of the
\* user applied leaves the user's document as it was: status, planId,
\* startDate, endDate, usageLimit and usageCount keep their values.
C7_IdempotentCapture ==
    [][(/\ Handles("capture-order")
        /\ res'.order # NoOrder
        /\ res'.order = applied[res'.u])
       => users'[res'.u] = users[res'.u]]_vars

\* an order was captured again after the user had used the new
\* subscription
C7_Witness ==
    /\ res.op = "capture-order"
    /\ res.order # NoOrder
    /\ res.order = applied[res.u]
    /\ res.code # 200
    /\ users[res.u].status \in PaidPlans
    /\ users[res.u].usageCount > 0

\* C8: a capture-order, or a verified payment-completed webhook, for the
\* order already applied to a user who is active on that plan is answered
\* with a success (200), not with an error.
C8_AlreadyAppliedIsSuccess ==
    [][\A u \in UserIds :
         (/\ applied[u] # NoOrder
          /\ users[u].status \in PaidPlans
          /\ \/ Handles("capture-order") /\ res'.u = u
             \/ Handles("webhook") /\ res'.gateway = "SUCCESS"
                  /\ res'.msg = "PAYMENT.CAPTURE.COMPLETED"
          /\ res'.order = applied[u])
         => res'.code = 200]_vars

\* C9: GET /subscription of a basic or premium user whose endDate has
\* passed returns status free, the free quota and null dates, and stores
\* status free, the free quota and a null endDate; usageCount is kept.
C9_ExpiryDowngradeOnView ==
    [][(/\ Handles("subscription")
        /\ users[res'.u].status \in PaidPlans
        /\ users[res'.u].endDate # Null
        /\ users[res'.u].endDate < now)
       => LET r == users'[res'.u]
              v == res'.view
          IN  /\ v.status = "free"
              /\ v.usageLimit = PlanQuota("free")
              /\ v.startDate = Null /\ v.endDate = Null
              /\ r.status = "free"
              /\ r.usageLimit = PlanQuota("free")
              /\ r.endDate = Null
              /\ r.usageCount = users[res'.u].usageCount]_vars

\* the view of an expired subscription was returned to a user who had
\* generated content
C9_Witness ==
    /\ res.op = "subscription"
    /\ res.view.status = "free"
    /\ res.view.isActive
    /\ res.view.usageCount > 0
    /\ users[res.u].status = "free"
    /\ users[res.u].endDate = Null

\* C10: in every reachable state a user with status free has no endDate.
C10_FreeHasNoEndDate ==
    \A u \in UserIds : users[u].status = "free" => users[u].endDate = Null

\* C11: in every reachable state a user with status free has the free
\* quota as usageLimit; in particular the record that checkSubscription
\* leaves after downgrading an expired paid subscription.
C11_FreeHasFreeQuota ==
    \A u \in UserIds :
        users[u].status = "free" => users[u].usageLimit = PlanQuota("free")

\* a paid subscription whose endDate is earlier than the time t of a read
Stale(rec, t) ==
    rec.status \in PaidPlans /\ rec.endDate # Null /\ rec.endDate < t

\* C12: after a request that reads or evaluates the subscription of its
\* user (GET /subscription, the checkSubscription guard of /generate, the
\* dashboard, the current-user read) the stored record of that user is
\* not a paid subscription whose endDate is earlier than the time of the
\* read.
C12_DowngradeAtFirstRead ==
    [][(\/ Handles("subscription")
        \/ Handles("generate")
        \/ Handles("dashboard")
        \/ Handles("me"))
       => ~Stale(users'[res'.u], now)]_vars

C14_ExpiredDenialOnce ==
    [][Handles("generate")
       => LET r == users[res'.u]
              r2 == users'[res'.u]
          IN  /\ Stale(r, now)
                   => /\ res'.code = 403
                      /\ res'.msg = "subscriptionExpired"
                      /\ r2.status = "free"
                      /\ r2.usageCount = r.usageCount
              /\ res'.msg = "subscriptionExpired" => Stale(r, now)
              /\ r.status = "free"
                   => /\ res'.msg # "subscriptionExpired"
                      /\ (res'.code = 403) <=> (r.usageCount >= r.usageLimit)]_vars

\* a user downgraded by the guard (free, with the endDate that passed)
\* made a further request to /generate, which the guard let through
C14_Witness ==
    /\ res.op = "generate"
    /\ res.code # 403
    /\ users[res.u].status = "free"
    /\ users[res.u].endDate # Null
    /\ users[res.u].endDate < now

\* C15: a request to /generate adds exactly 1 to the usageCount of its
\* user when it is answered 200, which happens only if the guard let it
\* through; it leaves usageCount as it was when the guard denies, the
\* prompt is missing, or generating or saving fails; no other document
\* changes.
C15_Counting ==
    [][Handles("generate")
       => LET r == users[res'.u]
              r2 == users'[res'.u]
          IN  /\ r2.usageCount =
                    IF res'.code = 200 THEN r.usageCount + 1 ELSE r.usageCount
              /\ res'.code = 200
                   => /\ ~(r.status = "free" /\ r.usageCount >= r.usageLimit)
                      /\ ~Stale(r, now)
              /\ \A v \in UserIds : v # res'.u => users'[v] = users[v]]_vars

\* a generation failed for a user who had generated content before
C15_Witness ==
    /\ res.op = "generate"
    /\ res.code = 500
    /\ users[res.u].usageCount > 0

\* C16: usageCount becomes 0 in every upgrade (a completed capture-order,
\* a payment-completed webhook applied to a free user); apart from the
\* increment of /generate no other request changes it: the expiry
\* downgrades of GET /subscription and of the guard, the denied/refunded
\* webhooks, create-order and failed captures keep it.
C16_UsageResetOnlyByUpgrade ==
    [][\A u \in UserIds :
         LET r == users[u]
             r2 == users'[u]
             captured == Handles("capture-order") /\ res'.code = 200 /\ res'.u = u
             webhooked == /\ Handles("webhook")
                          /\ res'.msg = "PAYMENT.CAPTURE.COMPLETED"
                          /\ r.status = "free" /\ r2.status \in PaidPlans
             generated == Handles("generate") /\ res'.code = 200 /\ res'.u = u
         IN  /\ (captured \/ webhooked) => r2.usageCount = 0
             /\ generated => r2.usageCount = r.usageCount + 1
             /\ ~(captured \/ webhooked \/ generated)
                  => r2.usageCount = r.usageCount]_vars

\* a refunded webhook rewrote the subscription of a user who had
\* generated content as the free one and left the usageCount
C16_Witness ==
    /\ res.op = "webhook"
    /\ res.code = 200
    /\ res.msg = "PAYMENT.CAPTURE.REFUNDED"
    /\ \E u \in UserIds :
          /\ users[u].status = "free"
          /\ users[u].planId = "free"
          /\ users[u].usageCount > 0

\* C17: a user has one pending-order slot: a create-order that returns an
\* order stores that order and its plan in place of whatever was pending;
\* afterwards a capture-order for any other order id (the one replaced
\* included) is rejected as a mismatch, and a capture-order for the
\* stored order passes the comparison and is sent to the gateway.
C17_SinglePendingSlot ==
    [][/\ (Handles("create-order") /\ res'.code = 200)
          => LET r2 == users'[res'.u] IN
             /\ res'.order # NoOrder
             /\ r2.pendingOrderId = res'.order
             /\ r2.pendingPlanId = res'.plan
       /\ (Handles("capture-order") /\ res'.order # NoOrder)
          => IF res'.order = users[res'.u].pendingOrderId
             THEN res'.gateway # "none"
             ELSE /\ res'.code = 400
                  /\ res'.msg = "Order ID does not match pending order"]_vars

\* the order issued first was refused while the order of a later
\* create-order was pending
C17_Witness ==
    /\ res.op = "capture-order"
    /\ res.code = 400
    /\ res.order = TestOrder(0)
    /\ users[res.u].pendingOrderId = TestOrder(ClockStep)
    /\ users[res.u].pendingPlanId \in PaidPlans

\* C18: a capture-order that matches the pending order and for which the
\* gateway returns a status other than COMPLETED is answered 400 "Payment
\* not completed" and changes no document: the pending order and plan
\* stay stored, so that the same capture-order passes the comparison
\* again.
C18_NonCompletedCapture ==
    [][(/\ Handles("capture-order")
        /\ res'.gateway \notin {"none", "throw", "COMPLETED"})
       => /\ res'.code = 400
          /\ res'.msg = "Payment not completed"
          /\ users' = users
          /\ users'[res'.u].pendingOrderId = res'.order
          /\ users'[res'.u].pendingPlanId \in {"basic", "premium"}]_vars

\* the gateway answered PENDING to the capture of the pending order
C18_Witness ==
    /\ res.op = "capture-order"
    /\ res.gateway = "PENDING"
    /\ users[res.u].pendingOrderId = res.order

\* C19: when createOrder or captureOrder throws, no document changes; a
\* create-order or capture-order changes a document only after the
\* gateway returned an order with an id, or a completed capture.
C19_MutateAfterConfirm ==
    [][/\ (Handles("create-order") \/ Handles("capture-order"))
          => /\ res'.gateway = "throw" => (users' = users /\ res'.code = 500)
             /\ users' # users => res'.gateway \in {"CREATED", "COMPLETED"}
       /\ (Handles("create-order") /\ users' # users) => res'.order # NoOrder]_vars

\* captureOrder threw for the pending order of a user
C19_Witness ==
    /\ res.op = "capture-order"
    /\ res.gateway = "throw"
    /\ res.code = 500
    /\ users[res.u].pendingOrderId = res.order

\* C20: a completed capture-order applies plan basic or premium, never an
\* unknown or absent plan id and never the default quota; the status of
\* every user is free, basic or premium.
C20_CaptureAppliesKnownPlan ==
    [][/\ (Handles("capture-order") /\ res'.code = 200)
          => LET r2 == users'[res'.u] IN
             /\ users[res'.u].pendingPlanId \in {"basic", "premium"}
             /\ res'.plan = users[res'.u].pendingPlanId
             /\ r2.status = res'.plan
             /\ r2.usageLimit # 10
       /\ \A u \in 1..Len(users') :
             users'[u].status \in {"free", "basic", "premium"}]_vars

\* a completed capture-order applied plan premium
C20_Witness ==
    /\ res.op = "capture-order"
    /\ res.code = 200
    /\ res.plan = "premium"
    /\ users[res.u].status = "premium"

\* C21: without credentials createOrder returns, without asking the
\* provider, an order with status CREATED whose id no earlier createOrder
\* returned: the id differs from every pending order and from every
\* order already applied, also for calls at the same clock reading.
C21_SandboxOrderUnique ==
    [][(Handles("create-order") /\ res'.code = 200)
       => /\ res'.gateway = "CREATED"
          /\ \A u \in UserIds :
                /\ users[u].pendingOrderId # res'.order
                /\ applied[u] # res'.order]_vars

\* C22: verifyWebhookSignature returns a boolean for every answer of the
\* provider, an error of the request included, and true only for
\* verification status SUCCESS: a webhook is answered 200 only when
\* verified and 401 otherwise, never 500.
C22_VerifyNeverThrows ==
    [][Handles("webhook")
       => /\ res'.code \in {200, 401}
          /\ res'.code = 200 <=> res'.gateway = "SUCCESS"
          /\ res'.gateway \in {"FAILURE", "throw"} => res'.code = 401]_vars

\* the verification request threw and the webhook was answered 401
C22_Witness ==
    /\ res.op = "webhook"
    /\ res.gateway = "throw"
    /\ res.code = 401

\* C23: a verified webhook whose order is neither pending for nor applied
\* to any user, or whose event type is not payment completed, denied or
\* refunded, changes no document and is answered 200.
C23_UnmatchedWebhookDropped ==
    [][(/\ Handles("webhook")
        /\ res'.gateway = "SUCCESS"
        /\ \/ res'.msg \notin {"PAYMENT.CAPTURE.COMPLETED", "PAYMENT.CAPTURE.DENIED",
                               "PAYMENT.CAPTURE.REFUNDED"}
           \/ \A u \in UserIds :
                 users[u].pendingOrderId # res'.order /\ applied[u] # res'.order)
       => (res'.code = 200 /\ users' = users)]_vars

\* C24: in every reachable state the stored isActive flag of a basic or
\* premium user, and the isActive of the GET /subscription body, equal
\* (endDate = null or endDate > now).
C24_IsActiveConsistent ==
    \A u \in UserIds :
        users[u].status \in PaidPlans
        => LET active == users[u].endDate = Null \/ users[u].endDate > now
               view == IF ViewExpired(users[u], now)
                       THEN ExpiredView(users[u]) ELSE CurrentView(users[u], now)
           IN  /\ users[u].isActive = active
               /\ view.status \in PaidPlans => view.isActive = active

\* C25: after a completed capture-order, after a verified payment-completed
\* webhook that made a user basic or premium, and after a verified
\* payment-denied/refunded webhook that rewrote a user's subscription or
\* named the user's pending order, that user has no pendingOrderId and no
\* pendingPlanId; a denied/refunded webhook keeps customerId.
C25_PendingClearedOnResolution ==
    [][\A u \in UserIds :
         LET r == users[u]
             r2 == users'[u]
             cleared == r2.pendingOrderId = NoOrder /\ r2.pendingPlanId = None
             verified == Handles("webhook") /\ res'.code = 200
         IN  /\ (Handles("capture-order") /\ res'.code = 200 /\ res'.u = u) => cleared
             /\ (/\ verified
                 /\ res'.msg = "PAYMENT.CAPTURE.COMPLETED"
                 /\ r.status = "free" /\ r2.status \in PaidPlans) => cleared
             /\ (/\ verified
                 /\ res'.msg \in {"PAYMENT.CAPTURE.DENIED", "PAYMENT.CAPTURE.REFUNDED"}
                 /\ (r2 # r \/ r.pendingOrderId = res'.order))
                => (cleared /\ r2.customerId = r.customerId)]_vars

\* the step sends the response of the request of slot i, which stood at pc
Finishes(i, pc) == inflight[i].pc = pc /\ inflight'[i].op = "none"

\* C26: for a user who stays on the free tier with the usageLimit of the
\* schema, under every interleaving of requests to /generate, usageCount
\* exceeds usageLimit by at most the number of requests that were past
\* the guard when usageCount reached usageLimit, counting those still
\* being handled; once none of them is left the guard denies.
C26_BoundedOvershoot ==
    \A u \in UserIds :
        users[u].planId = None
        => LET over == users[u].usageCount - users[u].usageLimit
               k == IF exhaustion[u] = Null THEN 0 ELSE exhaustion[u]
               left == Cardinality(PastGuard(0, u))
           IN  /\ over <= k
               /\ exhaustion[u] = Null => over < 0
               /\ over >= 0
                    => /\ over + left <= k
                       /\ left = 0 => CheckSubscription(users[u], now) = "limitReached"

\* two requests passed the guard at usageCount = usageLimit - 1 and both
\* were counted
C26_Witness ==
    \E u \in UserIds :
        /\ users[u].planId = None
        /\ users[u].usageCount > users[u].usageLimit
        /\ exhaustion[u] >= 1

\* C27: when a completed capture-order, or the update of a
\* payment-completed webhook, is written for a user to whom the same order
\* was already applied, the record is that of a single application: status
\* and planId are the plan applied, usageLimit is that plan's quota, no
\* payment is pending and endDate is 30 days after one of the two writes.
C27_ConcurrentApplyConverges ==
    [][\A i \in Slots :
         LET u == inflight[i].u IN
         (/\ Finishes(i, "capture") \/ Finishes(i, "apply")
          /\ inflight[i].order = applied[u]
          /\ users[u].status \in PaidPlans)
         => LET p == users[u].status
                r2 == users'[u]
            IN  /\ r2.status = p /\ r2.planId = p
                /\ r2.usageLimit = PlanQuota(p)
                /\ r2.pendingOrderId = NoOrder /\ r2.pendingPlanId = None
                /\ r2.endDate \in {users[u].endDate, now + DurationDays}]_vars

\* C28: the downgrade that GET /subscription or the guard of /generate
\* writes after reading an expired subscription leaves a record that a
\* capture-order has meanwhile made basic or premium, with endDate in the
\* future, as it is.
C28_DowngradeKeepsNewerSubscription ==
    [][\A i \in Slots :
         LET u == inflight[i].u IN
         (/\ Finishes(i, "reset") \/ Finishes(i, "downgrade")
          /\ applied[u] # NoOrder
          /\ users[u].isActive
          /\ users[u].status \in PaidPlans
          /\ users[u].endDate > now)
         => /\ users'[u].status = users[u].status
            /\ users'[u].endDate = users[u].endDate]_vars

\* C29: the write of a capture-order for order O1 leaves a pending order
\* O2 that create-order stored after the capture-order read the pending
\* slot: O2 and its plan stay stored and a capture-order for O2 passes the
\* comparison.
C29_PendingRemovedOnlyByOwnResolution ==
    [][\A i \in Slots :
         LET u == inflight[i].u IN
         (/\ Finishes(i, "capture")
          /\ users[u].pendingOrderId # NoOrder
          /\ users[u].pendingOrderId # inflight[i].order)
         => /\ users'[u].pendingOrderId = users[u].pendingOrderId
            /\ users'[u].pendingPlanId = users[u].pendingPlanId
            /\ ~OrderMismatch(users'[u], users[u].pendingOrderId)]_vars

====
